---- MODULE Spec2Model ----
(***************************************************************************)
(* Verification model of the vector-db worker:                             *)
(*   - ChunkProcessor (src/src/workflows/chunk-processor.ts): parameter    *)
(*     validation, text normalisation and the splitting loop;              *)
(*   - NotionSyncWorkflow (src/unnamed/part_000): the five-step sync run   *)
(*     with its error branch;                                              *)
(*   - the job manager of spec section 4.1 (its source is not part of the  *)
(*     source tree; only its tests are);                                   *)
(*   - the resilience kit of spec section 4.3 (circuit breaker, retry with *)
(*     backoff, bulk retry), likewise known from its tests only.           *)
(* Each component has its own specification over its own variables.        *)
(***************************************************************************)
EXTENDS Integers, Sequences, FiniteSets, TLC

VARIABLES
  \* ---- ChunkProcessor ----
  text,          \* params.text, a sequence of characters
  reqSize,       \* params.chunkSize (NoValue when absent)
  reqOverlap,    \* params.chunkOverlap (NoValue when absent)
  cpc,           \* position in execute / splitTextIntoChunks
  chunkSize,     \* validated chunk size
  chunkOverlap,  \* validated chunk overlap
  cleanTxt,      \* cleanText(text)
  startOffset,   \* loop variable of splitTextIntoChunks
  chunkIndex,    \* loop variable of splitTextIntoChunks
  chunks,        \* the chunks pushed so far
  \* ---- NotionSyncWorkflow.run ----
  params,               \* the parsed event payload
  page,                 \* the page returned by fetch-and-save-page
  spc,                  \* the step run() is about to invoke, or how it ended
  blocksProcessed,      \* counter of run()
  propertiesProcessed,  \* counter of run()
  vectorsCreated,       \* counter of run()
  caught,               \* the value bound by catch (error), <<>> before
  stepLog,              \* the step.do invocations so far, with their outcome
  embedCalls,           \* the createVectorAsync calls that returned
  relations,            \* the rows written by saveVectorRelation
  syncJobs,             \* the rows inserted into notionSyncJobs
  result,               \* the value run() returned, <<>> before
  fetchedBlocks,        \* the blocks local of the process-blocks step that returned, <<>> before
  \* ---- job manager ----
  jobs,                 \* the job registry: id -> job
  submitted,            \* number of jobs created so far (ids are 1..submitted)
  lastCancel,           \* <<ret>> right after a cancelJob call returned, else <<>>
  \* ---- CircuitBreaker ----
  threshold,            \* constructor argument: failures that open the circuit
  openDuration,         \* constructor argument: how long the circuit stays open
  cbState,              \* "CLOSED" or "OPEN"
  failures,             \* consecutive failures counted by the breaker
  lastFailureTime,      \* time of the last failure (0 before)
  now,                  \* the clock
  fnCalls,              \* how often the wrapped function was invoked
  consecutive,          \* failures of the wrapped function since its last success
  lastExecute,          \* outcome of the last execute call, "none" before
  \* ---- retryWithBackoff / retryBulkOperation ----
  rItems,               \* the items given to retryBulkOperation
  rMax,                 \* config.maxAttempts
  rIdx,                 \* index of the item being processed
  rpc,                  \* "call", "sleep", "settled" (retryWithBackoff ended), "done"
  rAttempt,             \* attempt number of retryWithBackoff
  rLog,                 \* per item so far, the outcomes of its operation calls
  rSlept,               \* the delays retryWithBackoff slept for the current item
  rSettled,             \* how retryWithBackoff ended for the current item
  successful,           \* result.successful
  failed,               \* result.failed
  \* ---- HTTP API (index.ts, vectors.ts) ----
  env,                  \* the bindings: ENVIRONMENT and API_KEY (<<>> when unset)
  req,                  \* the request: route, the two key headers, body
  apc,                  \* "authentication", "route", "responded", "idle"
  response,             \* <<>> before the response, then <<[status, success, error]>>
  handlersRun,          \* the route handlers that ran for the request
  indexCalls,           \* the VECTORIZE_INDEX methods called
  aiCalls,              \* number of AI.run calls
  rejection             \* <<v>> when the VECTORIZE_INDEX call rejected with v

chunkVars == <<text, reqSize, reqOverlap, cpc, chunkSize, chunkOverlap,
               cleanTxt, startOffset, chunkIndex, chunks>>

syncVars == <<params, page, spc, blocksProcessed, propertiesProcessed,
              vectorsCreated, caught, stepLog, embedCalls, relations, syncJobs,
              result, fetchedBlocks>>

jobVars == <<jobs, submitted, lastCancel>>

cbVars == <<threshold, openDuration, cbState, failures, lastFailureTime, now,
           fnCalls, consecutive, lastExecute>>

retryVars == <<rItems, rMax, rIdx, rpc, rAttempt, rLog, rSlept, rSettled,
              successful, failed>>

apiVars == <<env, req, apc, response, handlersRun, indexCalls, aiCalls,
             rejection>>

vars == <<chunkVars, syncVars, jobVars, cbVars, retryVars, apiVars>>

-----------------------------------------------------------------------------
(* Bounds of the model *)

\* longest text enumerated character by character
MaxShortLen == 2
\* the splitting loop is cut off once this many chunks have been pushed
MaxChunks == 4

-----------------------------------------------------------------------------
(* General helpers *)

\* an optional number: absent, or <<n>>
NoValue == <<>>
Some(n) == <<n>>

Min(a, b) == IF a < b THEN a ELSE b
Max(a, b) == IF a > b THEN a ELSE b
SetMax(S) == CHOOSE x \in S : \A y \in S : y <= x
SetMin(S) == CHOOSE x \in S : \A y \in S : x <= y

Rep(c, n) == [i \in 1..n |-> c]

\* all sequences over S of length at most n
SeqsUpTo(S, n) == UNION {[1..k -> S] : k \in 0..n}

\* JavaScript truthiness of an optional number
Falsy(v) == v = NoValue \/ v[1] = 0

-----------------------------------------------------------------------------
(* ChunkProcessor: constants *)

DEFAULT_CHUNK_SIZE == 1000
DEFAULT_CHUNK_OVERLAP == 100
MIN_CHUNK_SIZE == 100
MAX_CHUNK_SIZE == 5000
\* look-back windows of findWordBoundary
PunctLookBack == 50
SpaceLookBack == 20

\* the CJK marks are written by code point
punctuations == {"U+3002", "U+FF01", "U+FF1F", "\n", ".", "!", "?"}

\* white space as String.prototype.trim sees it (of the characters used here)
WhiteSpace == {" ", "\n", "\r", "\t"}

-----------------------------------------------------------------------------
(* ChunkProcessor: pure functions *)

validateChunkSize(cs) ==
  IF Falsy(cs) THEN DEFAULT_CHUNK_SIZE
  ELSE IF cs[1] < MIN_CHUNK_SIZE THEN MIN_CHUNK_SIZE
  ELSE IF cs[1] > MAX_CHUNK_SIZE THEN MAX_CHUNK_SIZE
  ELSE cs[1]

validateChunkOverlap(co, cs) ==
  IF Falsy(co) THEN DEFAULT_CHUNK_OVERLAP
  ELSE LET maxOverlap == cs \div 2
       IN IF co[1] > maxOverlap THEN maxOverlap
          ELSE IF co[1] < 0 THEN 0
          ELSE co[1]

\* the elements of s at the indices i with keep[i], in order
KeepWhere(s, keep) ==
  LET marked == [i \in 1..Len(s) |-> <<s[i], keep[i]>>]
      kept   == SelectSeq(marked, LAMBDA x : x[2])
  IN [i \in 1..Len(kept) |-> kept[i][1]]

\* .replace(/\r\n/g, '\n')
ReplaceCRLF(s) ==
  KeepWhere(s, [i \in 1..Len(s) |->
                  ~(s[i] = "\r" /\ i < Len(s) /\ s[i + 1] = "\n")])

\* .replace(/\r/g, '\n')
ReplaceCR(s) == [i \in 1..Len(s) |-> IF s[i] = "\r" THEN "\n" ELSE s[i]]

\* .replace(/\n{3,}/g, '\n\n')
CollapseNewlines(s) ==
  KeepWhere(s, [i \in 1..Len(s) |->
                  ~(i >= 3 /\ s[i] = "\n" /\ s[i - 1] = "\n" /\ s[i - 2] = "\n")])

\* String.prototype.trim
Trim(s) ==
  LET solid == {i \in 1..Len(s) : s[i] \notin WhiteSpace}
  IN IF solid = {} THEN <<>> ELSE SubSeq(s, SetMin(solid), SetMax(solid))

\* faulty variant: the final trim is left out
cleanText_NoTrim(t) == CollapseNewlines(ReplaceCR(ReplaceCRLF(t)))

cleanText(t) == Trim(CollapseNewlines(ReplaceCR(ReplaceCRLF(t))))

\* String.prototype.substring(a, b) with 0-based offsets
Substring(s, a, b) ==
  LET a1 == Max(0, Min(a, Len(s)))
      b1 == Max(0, Min(b, Len(s)))
  IN SubSeq(s, Min(a1, b1) + 1, Max(a1, b1))

\* t[i] of the source is t[i + 1] here
findWordBoundary(t, position) ==
  IF position >= Len(t) THEN Len(t)
  ELSE LET P == {i \in (Max(0, position - PunctLookBack) + 1)..position :
                   t[i + 1] \in punctuations}
           S == {i \in (Max(0, position - SpaceLookBack) + 1)..position :
                   t[i + 1] = " "}
       IN IF P # {} THEN SetMax(P) + 1
          ELSE IF S # {} THEN SetMax(S) + 1
          ELSE position

-----------------------------------------------------------------------------
(* ChunkProcessor: inputs *)

Alphabet == {"a", " ", "\n", "\r", "."}

ShortTexts == SeqsUpTo(Alphabet, MaxShortLen)

Separators == {<<>>, <<".">>, <<" ">>, <<"\r", "\n">>, <<"\n", "\n", "\n", "\n">>}

\* letters, a separator, a run of letters or blanks, letters
LongTexts ==
  {Rep("a", n1) \o sep \o Rep(f, n2) \o Rep("a", n3) :
     n1 \in {9, 60, 100}, sep \in Separators, f \in {"a", " "},
     n2 \in {0, 105}, n3 \in {0, 1, 70}}

Texts == ShortTexts \cup LongTexts

RequestedSizes == {NoValue} \cup {Some(n) : n \in {0, 50, 130, 6000}}

RequestedOverlaps == {NoValue} \cup {Some(n) : n \in {0, -10, 1, 2, 50, 80}}

-----------------------------------------------------------------------------
(* ChunkProcessor: operations *)

ChunkInit ==
  /\ text \in Texts
  /\ reqSize \in RequestedSizes
  /\ reqOverlap \in RequestedOverlaps
  /\ cpc = "execute"
  /\ chunkSize = 0
  /\ chunkOverlap = 0
  /\ cleanTxt = <<>>
  /\ startOffset = 0
  /\ chunkIndex = 0
  /\ chunks = <<>>

\* execute: validation, then the head of splitTextIntoChunks
Execute ==
  /\ cpc = "execute"
  /\ chunkSize' = validateChunkSize(reqSize)
  /\ chunkOverlap' = validateChunkOverlap(reqOverlap, chunkSize')
  /\ cleanTxt' = cleanText(text)
  /\ startOffset' = 0
  /\ chunkIndex' = 0
  /\ chunks' = <<>>
  /\ cpc' = IF Len(cleanTxt') = 0 THEN "returned"
            ELSE IF startOffset' < Len(cleanTxt') THEN "loop" ELSE "returned"
  /\ UNCHANGED <<text, reqSize, reqOverlap>>
  /\ UNCHANGED <<syncVars, jobVars, cbVars, retryVars,
                 apiVars>>

\* faulty variant: the overlap is added
NextStart_Forward(adjustedEndOffset, overlap) == adjustedEndOffset + overlap

\* the start offset the loop body computes for the next iteration
NextStart(adjustedEndOffset, overlap) == adjustedEndOffset - overlap

\* faulty variant: the larger of the two
RawEndOffset_Larger(start, size, len) == Max(start + size, len)

\* the end of the window before it is moved to a boundary
RawEndOffset(start, size, len) == Min(start + size, len)

\* one iteration of the while loop of splitTextIntoChunks
SplitIteration ==
  /\ cpc = "loop"
  /\ Len(chunks) < MaxChunks
  /\ LET endOffset         == RawEndOffset(startOffset, chunkSize, Len(cleanTxt))
         adjustedEndOffset == findWordBoundary(cleanTxt, endOffset)
         chunkText         == Substring(cleanTxt, startOffset, adjustedEndOffset)
         emit              == Len(Trim(chunkText)) > 0
     IN /\ chunks' = IF emit
                     THEN Append(chunks, [text        |-> chunkText,
                                          index       |-> chunkIndex,
                                          startOffset |-> startOffset,
                                          endOffset   |-> adjustedEndOffset])
                     ELSE chunks
        /\ chunkIndex' = IF emit THEN chunkIndex + 1 ELSE chunkIndex
        /\ startOffset' = NextStart(adjustedEndOffset, chunkOverlap)
        /\ cpc' = IF startOffset' >= Len(cleanTxt) - 1 THEN "returned"
                  ELSE IF startOffset' < Len(cleanTxt) THEN "loop"
                  ELSE "returned"
  /\ UNCHANGED <<text, reqSize, reqOverlap, chunkSize, chunkOverlap, cleanTxt>>
  /\ UNCHANGED <<syncVars, jobVars, cbVars, retryVars,
                 apiVars>>

ChunkNext == Execute \/ SplitIteration

RECURSIVE SumOfSizes(_)
\* sizes.reduce((sum, size) => sum + size, 0)
SumOfSizes(cs) ==
  IF cs = <<>> THEN 0 ELSE Len(cs[1].text) + SumOfSizes(Tail(cs))

\* Math.round of total / count, for a total that is not negative
RoundedQuotient(total, count) == (2 * total + count) \div (2 * count)

\* calculateStatistics(chunks).averageSize
AverageSize(cs) ==
  IF Len(cs) = 0 THEN 0 ELSE RoundedQuotient(SumOfSizes(cs), Len(cs))

\* the value execute returns once splitTextIntoChunks has returned
ChunkResult ==
  [chunks |-> chunks, totalChunks |-> Len(chunks),
   averageChunkSize |-> AverageSize(chunks)]

-----------------------------------------------------------------------------
(* NotionSyncWorkflow: data *)

\* bounds on the page the document source returns
MaxProperties == 2
MaxBlocks == 2

PageId == "page-1"

\* a thrown value: an Error with its message, or a value that is no Error
ThrownValues == {[isError |-> TRUE,  message |-> "boom"],
                 [isError |-> FALSE, message |-> "raw value"]}

NotFound == [isError |-> TRUE, message |-> "Page " \o PageId \o " not found"]

\* A property value is held as a sequence of strings: for title and rich_text
\* the plain_text of each rich-text item; for select <<>> when select is null
\* and <<name>> otherwise; for multi_select the option names.
PropertyKinds ==
  {[type |-> "title",        value |-> <<"Doc">>],
   [type |-> "title",        value |-> <<>>],
   [type |-> "rich_text",    value |-> <<"ab", "cd">>],
   [type |-> "select",       value |-> <<"Done">>],
   [type |-> "select",       value |-> <<>>],
   [type |-> "multi_select", value |-> <<"x", "y">>],
   [type |-> "number",       value |-> <<>>]}

\* page.properties, in the order Object.entries enumerates it
Pages == SeqsUpTo(PropertyKinds, MaxProperties)

PropertyName(i) == "prop" \o ToString(i)

\* A block: its id is its position; content is block[block.type], held as the
\* plain_text strings of rich_text (or of the cells of a table_row), and
\* hasContent tells whether block[block.type] is present.
BlockKinds ==
  {[type |-> "paragraph", hasContent |-> TRUE,  texts |-> <<"hello ", "world">>],
   [type |-> "paragraph", hasContent |-> TRUE,  texts |-> <<"0123456789">>],
   [type |-> "table_row", hasContent |-> TRUE,  texts |-> <<"cell one", "two">>],
   [type |-> "image",     hasContent |-> TRUE,  texts |-> <<>>],
   [type |-> "paragraph", hasContent |-> FALSE, texts |-> <<>>]}

BlockLists == SeqsUpTo(BlockKinds, MaxBlocks)

\* minimum text length of a block that is embedded (exclusive)
MinBlockTextLength == 10

RECURSIVE Join(_, _)
\* Array.prototype.join
Join(strs, sep) ==
  IF Len(strs) = 0 THEN ""
  ELSE IF Len(strs) = 1 THEN strs[1]
  ELSE strs[1] \o sep \o Join(Tail(strs), sep)

\* params.namespace || fallback (an absent namespace is held as "")
NamespaceOr(ns, fallback) == IF ns = "" THEN fallback ELSE ns

\* the first property of type title, <<>> when there is none
TitleProperty(props) ==
  LET idx == {i \in 1..Len(props) : props[i].type = "title"}
  IN IF idx = {} THEN <<>> ELSE <<props[SetMin(idx)]>>

\* faulty variant: a page without title text is embedded under a placeholder
TitleText_Placeholder(props) ==
  IF TitleProperty(props) = <<>> THEN "Untitled"
  ELSE IF Join(TitleProperty(props)[1].value, "") = "" THEN "Untitled"
  ELSE Join(TitleProperty(props)[1].value, "")

\* the text the title step embeds, "" when it returns null
TitleText(props) ==
  IF TitleProperty(props) = <<>> THEN ""
  ELSE Join(TitleProperty(props)[1].value, "")

\* faulty variant: select and multi_select are left out
VectorizableTypes_TextOnly == {"title", "rich_text"}

VectorizableTypes == {"title", "rich_text", "select", "multi_select"}

\* the text extracted from one property in process-properties
PropertyText(prop) ==
  IF prop.type \in {"title", "rich_text"} THEN Join(prop.value, "")
  ELSE IF prop.type = "select"
       THEN (IF prop.value = <<>> THEN "" ELSE prop.value[1])
  ELSE IF prop.type = "multi_select" THEN Join(prop.value, ", ")
  ELSE ""

\* propertiesToVectorize, as the items handed to the embedding loop
PropertiesToVectorize(props) ==
  LET all == [i \in 1..Len(props) |->
                [text    |-> PropertyName(i) \o ": " \o PropertyText(props[i]),
                 blockId |-> "",
                 keep    |-> props[i].type \in VectorizableTypes
                             /\ PropertyText(props[i]) # ""]]
  IN SelectSeq(all, LAMBDA x : x.keep)

RichTextTypes == {"paragraph", "heading_1", "heading_2", "heading_3",
                  "bulleted_list_item", "numbered_list_item", "to_do",
                  "toggle", "quote", "callout"}

extractPlainTextFromBlock(block) ==
  IF ~block.hasContent THEN ""
  ELSE IF block.type \in RichTextTypes THEN Join(block.texts, "")
  ELSE IF block.type = "code" THEN Join(block.texts, "")
  ELSE IF block.type = "table_row" THEN Join(block.texts, " ")
  ELSE ""

\* faulty variant: a block of exactly the threshold length is embedded too
BlocksToVectorize_AtLeast(blocks) ==
  LET all == [i \in 1..Len(blocks) |->
                [text    |-> extractPlainTextFromBlock(blocks[i]),
                 blockId |-> "block" \o ToString(i),
                 keep    |-> Len(extractPlainTextFromBlock(blocks[i]))
                               >= MinBlockTextLength]]
  IN SelectSeq(all, LAMBDA x : x.keep)

\* the blocks process-blocks embeds, as the items handed to the embedding loop
BlocksToVectorize(blocks) ==
  LET all == [i \in 1..Len(blocks) |->
                [text    |-> extractPlainTextFromBlock(blocks[i]),
                 blockId |-> "block" \o ToString(i),
                 keep    |-> extractPlainTextFromBlock(blocks[i]) # ""
                             /\ Len(extractPlainTextFromBlock(blocks[i]))
                                  > MinBlockTextLength]]
  IN SelectSeq(all, LAMBDA x : x.keep)

-----------------------------------------------------------------------------
(* NotionSyncWorkflow: the embedding loop shared by the three stages *)

\* How far a loop over n items of "createVectorAsync; saveVectorRelation" gets:
\* it completes, or the k-th createVectorAsync throws, or the k-th
\* saveVectorRelation throws.
LoopOutcomes(n) ==
  {[created |-> n, saved |-> n, threw |-> FALSE]}
  \cup {[created |-> k - 1, saved |-> k - 1, threw |-> TRUE] : k \in 1..n}
  \cup {[created |-> k,     saved |-> k - 1, threw |-> TRUE] : k \in 1..n}

\* the id createVectorAsync returns (result.jobId), fresh for every call
JobIdOf(calls, i) == Len(calls) + i

\* the createVectorAsync calls that returned
CallsAfter(calls, items, o, ns, contentType) ==
  calls \o [i \in 1..o.created |->
              [vectorId    |-> JobIdOf(calls, i),
               text        |-> items[i].text,
               namespace   |-> ns,
               contentType |-> contentType]]

\* faulty variant: no relation row is written
RelationsAfter_Unsaved(rels, calls, items, o, ns, contentType) == rels

\* the rows saveVectorRelation wrote
RelationsAfter(rels, calls, items, o, ns, contentType) ==
  rels \o [i \in 1..o.saved |->
             [pageId      |-> PageId,
              vectorId    |-> JobIdOf(calls, i),
              namespace   |-> ns,
              contentType |-> contentType,
              blockId     |-> items[i].blockId]]

-----------------------------------------------------------------------------
(* NotionSyncWorkflow: run() *)

SyncInit ==
  /\ params \in [includeBlocks : BOOLEAN, includeProperties : BOOLEAN,
                 namespace : {"", "team-space"}]
  /\ page = <<>>
  /\ spc = "fetch-and-save-page"
  /\ blocksProcessed = 0
  /\ propertiesProcessed = 0
  /\ vectorsCreated = 0
  /\ caught = <<>>
  /\ stepLog = <<>>
  /\ embedCalls = <<>>
  /\ relations = <<>>
  /\ syncJobs = <<>>
  /\ result = <<>>
  /\ fetchedBlocks = <<>>

Logged(name, ok) == Append(stepLog, [name |-> name, ok |-> ok])

\* faulty variant: includeProperties is not consulted
AfterTitle_IgnoresFlag(p) == "process-properties"

\* the step invoked after vectorize-page-title returned
AfterTitle(p) ==
  IF p.includeProperties THEN "process-properties"
  ELSE IF p.includeBlocks THEN "process-blocks"
  ELSE "complete-sync-job"

\* the step invoked after process-properties returned
AfterProperties(p) ==
  IF p.includeBlocks THEN "process-blocks" ELSE "complete-sync-job"

\* a step threw e: control passes to the catch clause
Throw(name, e) ==
  /\ stepLog' = Logged(name, FALSE)
  /\ caught' = <<e>>
  /\ spc' = "record-error"

\* Step 1: fetch-and-save-page
StepFetch ==
  /\ spc = "fetch-and-save-page"
  /\ \/ \* fetchPageFromNotion or savePage throws
        /\ \E e \in ThrownValues : Throw("fetch-and-save-page", e)
        /\ UNCHANGED page
     \/ \* fetchPageFromNotion returns null
        /\ Throw("fetch-and-save-page", NotFound)
        /\ UNCHANGED page
     \/ \* the page is fetched and saved
        /\ \E props \in Pages : page' = props
        /\ stepLog' = Logged("fetch-and-save-page", TRUE)
        /\ spc' = "vectorize-page-title"
        /\ UNCHANGED caught
  /\ UNCHANGED <<params, blocksProcessed, propertiesProcessed, vectorsCreated,
                 embedCalls, relations, syncJobs, result, fetchedBlocks>>
  /\ UNCHANGED <<chunkVars, jobVars, cbVars, retryVars,
                 apiVars>>

\* faulty variant: the title is counted whether or not it was embedded
TitleIncrement_Unconditional(hasTitleVector) == 1

\* what the title step adds to vectorsCreated, given whether it returned a jobId
TitleIncrement(hasTitleVector) == IF hasTitleVector THEN 1 ELSE 0

\* Step 2: vectorize-page-title, and the counter update after it
StepTitle ==
  /\ spc = "vectorize-page-title"
  /\ LET items == IF TitleText(page) = "" THEN <<>>
                  ELSE <<[text |-> TitleText(page), blockId |-> ""]>>
         ns    == NamespaceOr(params.namespace, "notion-pages")
     IN \E o \in LoopOutcomes(Len(items)) :
          /\ embedCalls' = CallsAfter(embedCalls, items, o, ns, "page_title")
          /\ relations' = RelationsAfter(relations, embedCalls, items, o, ns,
                                         "page_title")
          /\ IF o.threw
             THEN /\ \E e \in ThrownValues : Throw("vectorize-page-title", e)
                  /\ UNCHANGED vectorsCreated
             ELSE /\ stepLog' = Logged("vectorize-page-title", TRUE)
                  /\ vectorsCreated' =
                       vectorsCreated + TitleIncrement(Len(items) > 0)
                  /\ spc' = AfterTitle(params)
                  /\ UNCHANGED caught
  /\ UNCHANGED <<params, page, blocksProcessed, propertiesProcessed, syncJobs,
                 result, fetchedBlocks>>
  /\ UNCHANGED <<chunkVars, jobVars, cbVars, retryVars,
                 apiVars>>

\* Step 3: process-properties, and the counter updates after it
StepProperties ==
  /\ spc = "process-properties"
  /\ LET items == PropertiesToVectorize(page)
         ns    == NamespaceOr(params.namespace, "notion-properties")
     IN \/ \* savePageProperties throws
           /\ \E e \in ThrownValues : Throw("process-properties", e)
           /\ UNCHANGED <<embedCalls, relations, propertiesProcessed,
                          vectorsCreated>>
        \/ \E o \in LoopOutcomes(Len(items)) :
             /\ embedCalls' = CallsAfter(embedCalls, items, o, ns, "property")
             /\ relations' = RelationsAfter(relations, embedCalls, items, o, ns,
                                            "property")
             /\ IF o.threw
                THEN /\ \E e \in ThrownValues : Throw("process-properties", e)
                     /\ UNCHANGED <<propertiesProcessed, vectorsCreated>>
                ELSE /\ stepLog' = Logged("process-properties", TRUE)
                     /\ propertiesProcessed' = Len(page)
                     /\ vectorsCreated' = vectorsCreated + Len(items)
                     /\ spc' = AfterProperties(params)
                     /\ UNCHANGED caught
  /\ UNCHANGED <<params, page, blocksProcessed, syncJobs, result,
                 fetchedBlocks>>
  /\ UNCHANGED <<chunkVars, jobVars, cbVars, retryVars,
                 apiVars>>

\* Step 4: process-blocks, and the counter updates after it
StepBlocks ==
  /\ spc = "process-blocks"
  /\ \/ \* fetchBlocksFromNotion or saveBlocks throws
        /\ \E e \in ThrownValues : Throw("process-blocks", e)
        /\ UNCHANGED <<embedCalls, relations, blocksProcessed, vectorsCreated,
                       fetchedBlocks>>
     \/ \E blocks \in BlockLists :
          LET items == BlocksToVectorize(blocks)
              ns    == NamespaceOr(params.namespace, "notion-blocks")
          IN \E o \in LoopOutcomes(Len(items)) :
               /\ fetchedBlocks' = IF o.threw THEN fetchedBlocks ELSE blocks
               /\ embedCalls' = CallsAfter(embedCalls, items, o, ns, "block")
               /\ relations' = RelationsAfter(relations, embedCalls, items, o,
                                              ns, "block")
               /\ IF o.threw
                  THEN /\ \E e \in ThrownValues : Throw("process-blocks", e)
                       /\ UNCHANGED <<blocksProcessed, vectorsCreated>>
                  ELSE /\ stepLog' = Logged("process-blocks", TRUE)
                       /\ blocksProcessed' = Len(blocks)
                       /\ vectorsCreated' = vectorsCreated + Len(items)
                       /\ spc' = "complete-sync-job"
                       /\ UNCHANGED caught
  /\ UNCHANGED <<params, page, propertiesProcessed, syncJobs, result>>
  /\ UNCHANGED <<chunkVars, jobVars, cbVars, retryVars,
                 apiVars>>

\* faulty variant: the row is not written
InsertSyncJob_Dropped(table, row) == table

\* db.insert(notionSyncJobs).values(row)
InsertSyncJob(table, row) == Append(table, row)

\* the row complete-sync-job inserts
CompletedRow ==
  [pageId |-> PageId, status |-> "completed", error |-> "",
   hasMetadata |-> TRUE,
   blocksProcessed |-> blocksProcessed,
   propertiesProcessed |-> propertiesProcessed,
   vectorsCreated |-> vectorsCreated]

\* the row record-error inserts (it carries no metadata)
FailedRow(e) ==
  [pageId |-> PageId, status |-> "failed",
   error |-> IF e.isError THEN e.message ELSE "Unknown error",
   hasMetadata |-> FALSE,
   blocksProcessed |-> 0, propertiesProcessed |-> 0, vectorsCreated |-> 0]

\* the error field of the failure result
ResultError(e) == IF e.isError THEN e.message ELSE "Sync failed"

\* the value run() returns
RunResult(success, error) ==
  [success |-> success, pageId |-> PageId,
   blocksProcessed |-> blocksProcessed,
   propertiesProcessed |-> propertiesProcessed,
   vectorsCreated |-> vectorsCreated,
   error |-> error]

\* Step 5: complete-sync-job, and the return of the success result
StepComplete ==
  /\ spc = "complete-sync-job"
  /\ \/ \* the insert throws
        /\ \E e \in ThrownValues : Throw("complete-sync-job", e)
        /\ UNCHANGED <<syncJobs, result>>
     \/ /\ syncJobs' = InsertSyncJob(syncJobs, CompletedRow)
        /\ stepLog' = Logged("complete-sync-job", TRUE)
        /\ result' = <<RunResult(TRUE, "")>>
        /\ spc' = "returned"
        /\ UNCHANGED caught
  /\ UNCHANGED <<params, page, blocksProcessed, propertiesProcessed,
                 vectorsCreated, embedCalls, relations, fetchedBlocks>>
  /\ UNCHANGED <<chunkVars, jobVars, cbVars, retryVars,
                 apiVars>>

\* the catch clause: record-error, and the return of the failure result
StepRecordError ==
  /\ spc = "record-error"
  /\ \/ \* the insert throws: the exception leaves run()
        /\ stepLog' = Logged("record-error", FALSE)
        /\ spc' = "rejected"
        /\ UNCHANGED <<syncJobs, result>>
     \/ /\ syncJobs' = InsertSyncJob(syncJobs, FailedRow(caught[1]))
        /\ stepLog' = Logged("record-error", TRUE)
        /\ result' = <<RunResult(FALSE, ResultError(caught[1]))>>
        /\ spc' = "returned"
  /\ UNCHANGED <<params, page, blocksProcessed, propertiesProcessed,
                 vectorsCreated, caught, embedCalls, relations, fetchedBlocks>>
  /\ UNCHANGED <<chunkVars, jobVars, cbVars, retryVars,
                 apiVars>>

SyncNext ==
  StepFetch \/ StepTitle \/ StepProperties \/ StepBlocks \/ StepComplete
  \/ StepRecordError

-----------------------------------------------------------------------------
(* Job manager (spec section 4.1) *)

\* bounds of the job manager model
MaxJobs == 2
MaxConcurrentJobs == 1
MaxAttempts == 2

Priorities == {1, 2}

TerminalStatuses == {"COMPLETED", "FAILED", "CANCELLED"}

ProcessingCount(js) ==
  Cardinality({j \in DOMAIN js : js[j].status = "PROCESSING"})

\* faulty variant: the limit is not applied
FreeSlots_NoLimit(js) == MaxConcurrentJobs

\* the concurrency slots that are free
FreeSlots(js) == MaxConcurrentJobs - ProcessingCount(js)

\* the queued job dispatched next: highest priority, then submission order
NextQueued(js) ==
  LET q == {j \in DOMAIN js : js[j].status = "QUEUED"}
  IN CHOOSE j \in q :
       \A k \in q : \/ js[j].priority > js[k].priority
                    \/ js[j].priority = js[k].priority /\ j <= k

RECURSIVE ProcessQueue(_)
\* the scheduling loop: queued jobs take the free slots in dispatch order
ProcessQueue(js) ==
  IF FreeSlots(js) > 0 /\ \E j \in DOMAIN js : js[j].status = "QUEUED"
  THEN ProcessQueue([js EXCEPT ![NextQueued(js)].status = "PROCESSING"])
  ELSE js

\* faulty variant: any job can be cancelled
CanCancel_Always(job) == TRUE

\* faulty variant: the dispatch to the handler is not consulted
CanCancel_WhileProcessing(job) == job.status \in {"QUEUED", "PROCESSING"}

\* a job can be cancelled while queued, or processing but not yet handed to
\* its handler
CanCancel(job) ==
  \/ job.status = "QUEUED"
  \/ job.status = "PROCESSING" /\ ~job.dispatched

\* faulty variant: the attempt cap is not consulted
AfterRetryableFailure_NoCap(job) == "RETRYING"

\* the status after a retryable handler failure
AfterRetryableFailure(job) ==
  IF job.attempts < MaxAttempts THEN "RETRYING" ELSE "FAILED"

JobsInit ==
  /\ jobs = <<>>
  /\ submitted = 0
  /\ lastCancel = <<>>

\* createJob: register the job as QUEUED, then run the scheduling loop
CreateJob ==
  /\ submitted < MaxJobs
  /\ \E pr \in Priorities :
       LET id  == submitted + 1
           job == [status |-> "QUEUED", attempts |-> 0, priority |-> pr,
                   dispatched |-> FALSE, error |-> ""]
       IN jobs' = ProcessQueue([j \in DOMAIN jobs \cup {id} |->
                                  IF j = id THEN job ELSE jobs[j]])
  /\ submitted' = submitted + 1
  /\ lastCancel' = <<>>
  /\ UNCHANGED <<chunkVars, syncVars, cbVars, retryVars,
                 apiVars>>

\* the manager hands a PROCESSING job to its handler: one more attempt
DispatchToHandler ==
  /\ \E j \in DOMAIN jobs :
       /\ jobs[j].status = "PROCESSING"
       /\ ~jobs[j].dispatched
       /\ jobs' = [jobs EXCEPT ![j].dispatched = TRUE,
                               ![j].attempts = @ + 1]
  /\ lastCancel' = <<>>
  /\ UNCHANGED submitted
  /\ UNCHANGED <<chunkVars, syncVars, cbVars, retryVars,
                 apiVars>>

\* the handler of job j returned
HandlerCompleted ==
  /\ \E j \in DOMAIN jobs :
       /\ jobs[j].status = "PROCESSING"
       /\ jobs[j].dispatched
       /\ jobs' = ProcessQueue([jobs EXCEPT ![j].status = "COMPLETED"])
  /\ lastCancel' = <<>>
  /\ UNCHANGED submitted
  /\ UNCHANGED <<chunkVars, syncVars, cbVars, retryVars,
                 apiVars>>

\* the message of the error waitForWorkflow throws when its polls run out
TimeoutMessage == "Workflow did not complete within timeout"

\* the handler of job j failed with a retryable error (such as a poll timeout)
HandlerFailedRetryableOf(j) ==
  /\ j \in DOMAIN jobs
  /\ jobs[j].status = "PROCESSING"
  /\ jobs[j].dispatched
  /\ jobs' = ProcessQueue(
       [jobs EXCEPT ![j].status = AfterRetryableFailure(jobs[j]),
                    ![j].error = TimeoutMessage])
  /\ lastCancel' = <<>>
  /\ UNCHANGED submitted
  /\ UNCHANGED <<chunkVars, syncVars, cbVars, retryVars,
                 apiVars>>

HandlerFailedRetryable == \E j \in DOMAIN jobs : HandlerFailedRetryableOf(j)

\* the handler of job j failed with a business error: no retry
HandlerFailedPermanently ==
  /\ \E j \in DOMAIN jobs :
       /\ jobs[j].status = "PROCESSING"
       /\ jobs[j].dispatched
       /\ jobs' = ProcessQueue([jobs EXCEPT ![j].status = "FAILED",
                                            ![j].error = "Text is required"])
  /\ lastCancel' = <<>>
  /\ UNCHANGED submitted
  /\ UNCHANGED <<chunkVars, syncVars, cbVars, retryVars,
                 apiVars>>

\* a RETRYING job goes back to PROCESSING when a slot is free
RetryJob ==
  /\ \E j \in DOMAIN jobs :
       /\ jobs[j].status = "RETRYING"
       /\ FreeSlots(jobs) > 0
       /\ jobs' = [jobs EXCEPT ![j].status = "PROCESSING",
                               ![j].dispatched = FALSE]
  /\ lastCancel' = <<>>
  /\ UNCHANGED submitted
  /\ UNCHANGED <<chunkVars, syncVars, cbVars, retryVars,
                 apiVars>>

\* cancelJob(id): true and CANCELLED when the job can be cancelled, false and
\* no change otherwise (also for an unknown id)
CancelJobOf(j) ==
  /\ IF j \in DOMAIN jobs /\ CanCancel(jobs[j])
     THEN /\ jobs' = ProcessQueue([jobs EXCEPT ![j].status = "CANCELLED"])
          /\ lastCancel' = <<TRUE>>
     ELSE /\ jobs' = jobs
          /\ lastCancel' = <<FALSE>>
  /\ UNCHANGED submitted
  /\ UNCHANGED <<chunkVars, syncVars, cbVars, retryVars,
                 apiVars>>

CancelJob == \E j \in 1..submitted : CancelJobOf(j)

\* clearJobs(completedOnly): drop the terminal jobs, or all of them
ClearJobs ==
  /\ \E completedOnly \in BOOLEAN :
       LET keep == IF completedOnly
                   THEN {j \in DOMAIN jobs :
                           jobs[j].status \notin TerminalStatuses}
                   ELSE {}
       IN jobs' = [j \in keep |-> jobs[j]]
  /\ lastCancel' = <<>>
  /\ UNCHANGED submitted
  /\ UNCHANGED <<chunkVars, syncVars, cbVars, retryVars,
                 apiVars>>

JobsNext ==
  CreateJob \/ DispatchToHandler \/ HandlerCompleted \/ HandlerFailedRetryable
  \/ HandlerFailedPermanently \/ RetryJob \/ CancelJob \/ ClearJobs

-----------------------------------------------------------------------------
(* CircuitBreaker (spec section 4.3) *)

\* the clock stops here
MaxTime == 3
\* largest threshold and open duration a breaker is constructed with
MaxThreshold == 3
MaxOpenDuration == 2
\* the wrapped function is invoked at most this often
MaxFnCalls == 5

CircuitOpenMessage == "Circuit breaker is OPEN"

\* the open duration has elapsed since the last failure
CoolDownOver == now - lastFailureTime >= openDuration

\* execute rejects without invoking the wrapped function
MustReject == cbState = "OPEN" /\ ~CoolDownOver

\* the failure count after the wrapped function succeeded
FailuresAfterSuccess == 0

\* faulty variant: the circuit opens one failure late
StateAfterFailure_Late(n) == IF n > threshold THEN "OPEN" ELSE "CLOSED"

\* the state after the n-th consecutive failure
StateAfterFailure(n) == IF n >= threshold THEN "OPEN" ELSE "CLOSED"

CircuitInit ==
  /\ threshold \in 1..MaxThreshold
  /\ openDuration \in 1..MaxOpenDuration
  /\ cbState = "CLOSED"
  /\ failures = 0
  /\ lastFailureTime = 0
  /\ now = 0
  /\ fnCalls = 0
  /\ consecutive = 0
  /\ lastExecute = "none"

\* execute(fn) while the circuit is open and the open duration has not elapsed
ExecuteRejected ==
  /\ MustReject
  /\ lastExecute' = CircuitOpenMessage
  /\ UNCHANGED <<threshold, openDuration, cbState, failures, lastFailureTime,
                 now, fnCalls, consecutive>>
  /\ UNCHANGED <<chunkVars, syncVars, jobVars, retryVars,
                 apiVars>>

\* execute(fn), fn resolves: the circuit closes and the count is reset
ExecuteSuccess ==
  /\ ~MustReject
  /\ fnCalls < MaxFnCalls
  /\ fnCalls' = fnCalls + 1
  /\ consecutive' = 0
  /\ failures' = FailuresAfterSuccess
  /\ cbState' = "CLOSED"
  /\ lastExecute' = "success"
  /\ UNCHANGED <<threshold, openDuration, lastFailureTime, now>>
  /\ UNCHANGED <<chunkVars, syncVars, jobVars, retryVars,
                 apiVars>>

\* execute(fn), fn rejects: the failure is counted and rethrown
ExecuteFailure ==
  /\ ~MustReject
  /\ fnCalls < MaxFnCalls
  /\ fnCalls' = fnCalls + 1
  /\ consecutive' = consecutive + 1
  /\ failures' = failures + 1
  /\ lastFailureTime' = now
  /\ cbState' = StateAfterFailure(failures')
  /\ lastExecute' = "Service error"
  /\ UNCHANGED <<threshold, openDuration, now>>
  /\ UNCHANGED <<chunkVars, syncVars, jobVars, retryVars,
                 apiVars>>

\* time passes
Tick ==
  /\ now < MaxTime
  /\ now' = now + 1
  /\ UNCHANGED <<threshold, openDuration, cbState, failures, lastFailureTime,
                 fnCalls, consecutive, lastExecute>>
  /\ UNCHANGED <<chunkVars, syncVars, jobVars, retryVars,
                 apiVars>>

CircuitNext == ExecuteRejected \/ ExecuteSuccess \/ ExecuteFailure \/ Tick

-----------------------------------------------------------------------------
(* retryWithBackoff and retryBulkOperation (spec section 4.3) *)

\* longest item list and largest maxAttempts tried
MaxItems == 2
MaxRetryAttempts == 2

\* the backoff of RetryPresets.fast
InitialDelay == 100
MaxDelay == 1000
BackoffMultiplier == 2

BulkItems == {1, 2}

\* what one call of the operation does: resolve, reject with a retryable
\* error (service unavailable), reject with a non-retryable one (validation)
CallKinds == {"ok", "retryable", "fatal"}

\* the default retryCondition
retryCondition(e) == e.kind = "retryable"

RECURSIVE Power(_, _)
Power(b, n) == IF n = 0 THEN 1 ELSE b * Power(b, n - 1)

\* the sleep before the retry that follows the given attempt
Delay(attempt) ==
  Min(InitialDelay * Power(BackoffMultiplier, attempt - 1), MaxDelay)

\* faulty variant: one attempt too many
Exhausted_OffByOne(attempt) == attempt > rMax

\* no attempt is left
Exhausted(attempt) == attempt >= rMax

\* faulty variant: a failed item ends the bulk operation
IndexAfterFailure_Abort(i) == Len(rItems) + 1

\* the item processed after item i failed
IndexAfterFailure(i) == i + 1

\* the result of the operation for an item (the tests double it)
OperationResult(item) == item * 2

RetryInit ==
  /\ rItems \in SeqsUpTo(BulkItems, MaxItems)
  /\ rMax \in 1..MaxRetryAttempts
  /\ rIdx = 1
  /\ rpc = IF rItems = <<>> THEN "done" ELSE "call"
  /\ rAttempt = 1
  /\ rLog = <<>>
  /\ rSlept = <<>>
  /\ rSettled = <<>>
  /\ successful = <<>>
  /\ failed = <<>>

\* retryWithBackoff invokes the operation on the current item
InvokeOperation ==
  /\ rpc = "call"
  /\ \E kind \in CallKinds :
       LET soFar == IF Len(rLog) < rIdx THEN <<>> ELSE rLog[rIdx]
           e     == [kind |-> kind, item |-> rItems[rIdx],
                     call |-> Len(soFar) + 1]
           log   == Append(soFar, e)
       IN /\ rLog' = IF Len(rLog) < rIdx THEN Append(rLog, log)
                                         ELSE [rLog EXCEPT ![rIdx] = log]
          /\ IF kind = "ok"
             THEN /\ rSettled' = <<[resolved |-> TRUE, error |-> e]>>
                  /\ rpc' = "settled"
             ELSE IF ~retryCondition(e) \/ Exhausted(rAttempt)
             THEN /\ rSettled' = <<[resolved |-> FALSE, error |-> e]>>
                  /\ rpc' = "settled"
             ELSE /\ rSettled' = rSettled
                  /\ rpc' = "sleep"
  /\ UNCHANGED <<rItems, rMax, rIdx, rAttempt, rSlept, successful, failed>>
  /\ UNCHANGED <<chunkVars, syncVars, jobVars, cbVars,
                 apiVars>>

\* retryWithBackoff sleeps, then starts the next attempt
SleepBeforeRetry ==
  /\ rpc = "sleep"
  /\ rSlept' = Append(rSlept, Delay(rAttempt))
  /\ rAttempt' = rAttempt + 1
  /\ rpc' = "call"
  /\ UNCHANGED <<rItems, rMax, rIdx, rLog, rSettled, successful, failed>>
  /\ UNCHANGED <<chunkVars, syncVars, jobVars, cbVars,
                 apiVars>>

\* retryBulkOperation files the item under successful or failed and goes on
CollectItem ==
  /\ rpc = "settled"
  /\ LET item == rItems[rIdx]
         next == IF rSettled[1].resolved THEN rIdx + 1
                                         ELSE IndexAfterFailure(rIdx)
     IN /\ IF rSettled[1].resolved
           THEN /\ successful' = Append(successful,
                     [item |-> item, result |-> OperationResult(item)])
                /\ failed' = failed
           ELSE /\ failed' = Append(failed,
                     [item |-> item, error |-> rSettled[1].error])
                /\ successful' = successful
        /\ rIdx' = next
        /\ rpc' = IF next > Len(rItems) THEN "done" ELSE "call"
  /\ rAttempt' = 1
  /\ rSlept' = <<>>
  /\ rSettled' = <<>>
  /\ UNCHANGED <<rItems, rMax, rLog>>
  /\ UNCHANGED <<chunkVars, syncVars, jobVars, cbVars,
                 apiVars>>

RetryNext == InvokeOperation \/ SleepBeforeRetry \/ CollectItem

-----------------------------------------------------------------------------
(* Idle components, for the specifications of the other components *)

RetryIdle ==
  /\ rItems = <<>> /\ rMax = 0 /\ rIdx = 0 /\ rpc = "idle" /\ rAttempt = 0
  /\ rLog = <<>> /\ rSlept = <<>> /\ rSettled = <<>>
  /\ successful = <<>> /\ failed = <<>>

CircuitIdle ==
  /\ threshold = 0 /\ openDuration = 0 /\ cbState = "CLOSED" /\ failures = 0
  /\ lastFailureTime = 0 /\ now = 0 /\ fnCalls = 0 /\ consecutive = 0
  /\ lastExecute = "none"

ChunkIdle ==
  /\ text = <<>> /\ reqSize = NoValue /\ reqOverlap = NoValue
  /\ cpc = "idle" /\ chunkSize = 0 /\ chunkOverlap = 0 /\ cleanTxt = <<>>
  /\ startOffset = 0 /\ chunkIndex = 0 /\ chunks = <<>>

SyncIdle ==
  /\ params = [includeBlocks |-> FALSE, includeProperties |-> FALSE,
               namespace |-> ""]
  /\ page = <<>> /\ spc = "idle"
  /\ blocksProcessed = 0 /\ propertiesProcessed = 0 /\ vectorsCreated = 0
  /\ caught = <<>> /\ stepLog = <<>> /\ embedCalls = <<>> /\ relations = <<>>
  /\ syncJobs = <<>> /\ result = <<>> /\ fetchedBlocks = <<>>

JobsIdle ==
  /\ jobs = <<>>
  /\ submitted = 0
  /\ lastCancel = <<>>

-----------------------------------------------------------------------------
(* HTTP API: the authentication middleware and the vector routes *)

\* the routes registered in index.ts whose handlers are in vectors.ts, and
\* two paths no route matches
ApiRoutes == {"POST /api/vectors", "GET /api/vectors/:id",
              "DELETE /api/vectors/:id", "POST /api/vectors/batch",
              "POST /api/search", "GET /api/unknown"}

Routes == ApiRoutes \cup {"GET /unknown"}

\* app.use('/api/*', ...) applies to the paths under /api/
UnderApi(route) == route \in ApiRoutes

Environments == {NoValue, Some("development"), Some("production"),
                 Some("staging")}

ApiKeys == {NoValue, Some(""), Some("secret")}

XApiKeyHeaders == {NoValue, Some(""), Some("secret"), Some("wrong")}

AuthorizationHeaders == {NoValue, Some("Bearer secret"), Some("secret"),
                         Some("Bearer "), Some("Basic abc")}

\* request bodies: text that is not JSON, {values: [...]}, {vector: [...]},
\* {text: "..."}, [{values: [...]}] and []
Bodies == {"malformed", "values", "vector", "text", "array", "emptyArray"}

\* A thrown value: kind tells what it is, message is its message property
\* (<<>> when it has none), num, flag and text are the value of a number, a
\* boolean and a string.
Thrown(kind, message, num, flag, txt) ==
  [kind |-> kind, message |-> message, num |-> num, flag |-> flag, text |-> txt]

\* what a VECTORIZE_INDEX or AI call may reject with
Rejections ==
  {Thrown("Error", Some("index down"), 0, FALSE, ""),
   Thrown("Error", Some(""), 0, FALSE, ""),
   Thrown("number", NoValue, 123, FALSE, ""),
   Thrown("null", NoValue, 0, FALSE, ""),
   Thrown("undefined", NoValue, 0, FALSE, ""),
   Thrown("boolean", NoValue, 0, FALSE, ""),
   Thrown("boolean", NoValue, 0, TRUE, ""),
   Thrown("object", NoValue, 0, FALSE, ""),
   Thrown("object", Some("index offline"), 0, FALSE, ""),
   Thrown("string", NoValue, 0, FALSE, "string error not Error object")}

\* String(value)
StringOf(v) ==
  CASE v.kind = "Error"     -> (IF v.message[1] = "" THEN "Error"
                                ELSE "Error: " \o v.message[1])
    [] v.kind = "number"    -> ToString(v.num)
    [] v.kind = "null"      -> "null"
    [] v.kind = "undefined" -> "undefined"
    [] v.kind = "boolean"   -> (IF v.flag THEN "true" ELSE "false")
    [] v.kind = "object"    -> "[object Object]"
    [] v.kind = "string"    -> v.text

\* String.prototype.replace('Bearer ', ''): the first occurrence is removed
ReplaceBearer(s) ==
  LET n    == Len(s)
      hits == {i \in 1..(n - 6) : SubSeq(s, i, i + 6) = "Bearer "}
  IN IF hits = {} THEN s
     ELSE SubSeq(s, 1, SetMin(hits) - 1) \o SubSeq(s, SetMin(hits) + 7, n)

\* c.req.header('X-API-Key') || c.req.header('Authorization')?.replace(...)
ApiKeyOf(r) ==
  IF r.xApiKey # NoValue /\ r.xApiKey[1] # "" THEN r.xApiKey
  ELSE IF r.authorization = NoValue THEN NoValue
  ELSE Some(ReplaceBearer(r.authorization[1]))

\* c.json(...): error is <<>> when the body has no error field
Json(status, success, error) ==
  <<[status |-> status, success |-> success, error |-> error]>>

ApiInit ==
  /\ env \in [ENVIRONMENT : Environments, API_KEY : ApiKeys]
  /\ req \in [route : Routes, xApiKey : XApiKeyHeaders,
              authorization : AuthorizationHeaders, body : Bodies]
  /\ apc = "authentication"
  /\ response = <<>>
  /\ handlersRun = <<>>
  /\ indexCalls = <<>>
  /\ aiCalls = 0
  /\ rejection = <<>>

\* Skip auth in development
SkipsAuth(e) == e.ENVIRONMENT = Some("development")

\* apiKey !== c.env.API_KEY
Unauthorized(e, r) == ApiKeyOf(r) # e.API_KEY

\* the authentication middleware, for a request it applies to or not
Authentication ==
  /\ apc = "authentication"
  /\ IF UnderApi(req.route) /\ ~SkipsAuth(env) /\ Unauthorized(env, req)
     THEN /\ response' = Json(401, FALSE, Some("Unauthorized"))
          /\ apc' = "responded"
     ELSE /\ apc' = "route"
          /\ UNCHANGED response
  /\ UNCHANGED <<env, req, handlersRun, indexCalls, aiCalls, rejection>>
  /\ UNCHANGED <<chunkVars, syncVars, jobVars, cbVars, retryVars>>

\* the error text of createVector and searchVectors:
\* err instanceof Error ? err.message : String(err)
ErrorOfCaught(v) == IF v.kind = "Error" THEN v.message[1] ELSE StringOf(v)

\* the error text of getVector, deleteVector and batchCreateVectors:
\* err?.message || String(err)
MessageOrString(v) ==
  IF v.message # NoValue /\ v.message[1] # "" THEN v.message[1]
  ELSE StringOf(v)

\* what c.req.json() throws for a body that is not JSON
JsonSyntaxError == Thrown("Error", Some("Unexpected token"), 0, FALSE, "")

\* err.errors[0].message of the ZodError for a body the schema rejects
ZodMessage(body) ==
  IF body \in {"array", "emptyArray"} THEN "Expected object, received array"
  ELSE "Required"

\* a route handler ran: the calls it made and the response it returned
Handled(handler, calls, ai, rej, resp) ==
  /\ handlersRun' = Append(handlersRun, handler)
  /\ indexCalls' = indexCalls \o calls
  /\ aiCalls' = aiCalls + ai
  /\ rejection' = rej
  /\ response' = resp
  /\ apc' = "responded"
  /\ UNCHANGED <<env, req>>
  /\ UNCHANGED <<chunkVars, syncVars, jobVars, cbVars, retryVars>>

createVector ==
  /\ apc = "route"
  /\ req.route = "POST /api/vectors"
  /\ \/ /\ req.body = "malformed"
        /\ Handled("createVector", <<>>, 0, NoValue,
                   Json(500, FALSE, Some(ErrorOfCaught(JsonSyntaxError))))
     \/ /\ req.body \notin {"malformed", "values"}
        /\ Handled("createVector", <<>>, 0, NoValue,
                   Json(400, FALSE,
                        Some("Invalid request: " \o ZodMessage(req.body))))
     \/ /\ req.body = "values"
        /\ \/ Handled("createVector", <<"insert">>, 0, NoValue,
                      Json(200, TRUE, NoValue))
           \/ \E v \in Rejections :
                Handled("createVector", <<"insert">>, 0, Some(v),
                        Json(500, FALSE, Some(ErrorOfCaught(v))))

getVector ==
  /\ apc = "route"
  /\ req.route = "GET /api/vectors/:id"
  /\ \/ \* getByIds returned nothing
        Handled("getVector", <<"getByIds">>, 0, NoValue,
                Json(404, FALSE, Some("Vector not found")))
     \/ Handled("getVector", <<"getByIds">>, 0, NoValue,
                Json(200, TRUE, NoValue))
     \/ \E v \in Rejections :
          Handled("getVector", <<"getByIds">>, 0, Some(v),
                  Json(500, FALSE, Some(MessageOrString(v))))

deleteVector ==
  /\ apc = "route"
  /\ req.route = "DELETE /api/vectors/:id"
  /\ \/ \* result.count === 0
        Handled("deleteVector", <<"deleteByIds">>, 0, NoValue,
                Json(404, FALSE, Some("Vector not found")))
     \/ Handled("deleteVector", <<"deleteByIds">>, 0, NoValue,
                Json(200, TRUE, NoValue))
     \/ \E v \in Rejections :
          Handled("deleteVector", <<"deleteByIds">>, 0, Some(v),
                  Json(500, FALSE, Some(MessageOrString(v))))

\* VECTORIZE_INDEX.query and what follows it in searchVectors, after ai
\* calls of AI.run
QueryIndex(ai) ==
  \/ Handled("searchVectors", <<"query">>, ai, NoValue,
             Json(200, TRUE, NoValue))
  \/ \E v \in Rejections :
       Handled("searchVectors", <<"query">>, ai, Some(v),
               Json(500, FALSE, Some(ErrorOfCaught(v))))

searchVectors ==
  /\ apc = "route"
  /\ req.route = "POST /api/search"
  /\ \/ /\ req.body = "malformed"
        /\ Handled("searchVectors", <<>>, 0, NoValue,
                   Json(500, FALSE, Some(ErrorOfCaught(JsonSyntaxError))))
     \/ /\ req.body \in {"array", "emptyArray"}
        /\ Handled("searchVectors", <<>>, 0, NoValue,
                   Json(400, FALSE,
                        Some("Invalid request: " \o ZodMessage(req.body))))
     \/ /\ req.body = "vector"
        /\ QueryIndex(0)
     \/ /\ req.body = "text"
        /\ \/ QueryIndex(1)
           \/ \* AI.run returned no data
              Handled("searchVectors", <<>>, 1, NoValue,
                      Json(500, FALSE,
                           Some("Failed to generate search embedding")))
           \/ \E v \in Rejections :
                Handled("searchVectors", <<>>, 1, NoValue,
                        Json(500, FALSE, Some(ErrorOfCaught(v))))
     \/ /\ req.body = "values"
        /\ Handled("searchVectors", <<>>, 0, NoValue,
                   Json(400, FALSE,
                        Some("Either vector or text must be provided")))

batchCreateVectors ==
  /\ apc = "route"
  /\ req.route = "POST /api/vectors/batch"
  /\ \/ /\ req.body = "malformed"
        /\ Handled("batchCreateVectors", <<>>, 0, NoValue,
                   Json(500, FALSE, Some(MessageOrString(JsonSyntaxError))))
     \/ /\ req.body \notin {"malformed", "array"}
        /\ Handled("batchCreateVectors", <<>>, 0, NoValue,
                   Json(400, FALSE,
                        Some("Request body must be a non-empty array")))
     \/ /\ req.body = "array"
        /\ \/ Handled("batchCreateVectors", <<"insert">>, 0, NoValue,
                      Json(200, TRUE, NoValue))
           \/ \E v \in Rejections :
                Handled("batchCreateVectors", <<"insert">>, 0, Some(v),
                        Json(500, FALSE, Some(MessageOrString(v))))

\* app.notFound: no route matches the path
notFoundHandler ==
  /\ apc = "route"
  /\ req.route \in {"GET /api/unknown", "GET /unknown"}
  /\ response' = Json(404, FALSE, Some("Not found"))
  /\ apc' = "responded"
  /\ UNCHANGED <<env, req, handlersRun, indexCalls, aiCalls, rejection>>
  /\ UNCHANGED <<chunkVars, syncVars, jobVars, cbVars, retryVars>>

ApiNext ==
  Authentication \/ createVector \/ getVector \/ deleteVector
  \/ searchVectors \/ batchCreateVectors \/ notFoundHandler

ApiIdle ==
  /\ env = [ENVIRONMENT |-> NoValue, API_KEY |-> NoValue]
  /\ req = [route |-> "GET /unknown", xApiKey |-> NoValue, authorization |-> NoValue,
            body |-> "malformed"]
  /\ apc = "idle" /\ response = <<>> /\ handlersRun = <<>>
  /\ indexCalls = <<>> /\ aiCalls = 0 /\ rejection = <<>>

-----------------------------------------------------------------------------
(* Specifications *)

InitChunk ==
  ChunkInit /\ SyncIdle /\ JobsIdle /\ CircuitIdle /\ RetryIdle /\ ApiIdle

SpecChunk == InitChunk /\ [][ChunkNext]_vars

InitSync ==
  SyncInit /\ ChunkIdle /\ JobsIdle /\ CircuitIdle /\ RetryIdle /\ ApiIdle

SpecSync == InitSync /\ [][SyncNext]_vars

InitJobs ==
  JobsInit /\ ChunkIdle /\ SyncIdle /\ CircuitIdle /\ RetryIdle /\ ApiIdle

SpecJobs == InitJobs /\ [][JobsNext]_vars

InitCircuit ==
  CircuitInit /\ ChunkIdle /\ SyncIdle /\ JobsIdle /\ RetryIdle /\ ApiIdle

SpecCircuit == InitCircuit /\ [][CircuitNext]_vars

InitRetry ==
  RetryInit /\ ChunkIdle /\ SyncIdle /\ JobsIdle /\ CircuitIdle /\ ApiIdle

SpecRetry == InitRetry /\ [][RetryNext]_vars

InitApi ==
  ApiInit /\ ChunkIdle /\ SyncIdle /\ JobsIdle /\ CircuitIdle /\ RetryIdle

SpecApi == InitApi /\ [][ApiNext]_vars

-----------------------------------------------------------------------------
(* Properties of the splitting loop *)

Validated == cpc \in {"loop", "returned"}

\* C1: every iteration of the splitting loop either moves the start offset
\* strictly forward or leaves the loop, so the loop terminates.
C1_LoopMakesProgress ==
  [][SplitIteration => (startOffset' > startOffset \/ cpc' = "returned")]_vars

\* C5: the overlap used for splitting lies in [0, floor(chunkSize / 2)],
\* whatever overlap was requested.
C5_OverlapWithinHalf ==
  Validated => (0 <= chunkOverlap /\ chunkOverlap <= chunkSize \div 2)

\* C6: with an overlap in [0, floor(chunkSize / 2)] the start offsets of the
\* emitted chunks strictly increase in emission order.
C6_StartOffsetsIncrease ==
  (Validated /\ 0 <= chunkOverlap /\ chunkOverlap <= chunkSize \div 2)
    => \A i \in 1..(Len(chunks) - 1) :
         chunks[i].startOffset < chunks[i + 1].startOffset

-----------------------------------------------------------------------------
(* Properties of the sync run *)

Ended == spc \in {"returned", "rejected"}

StepCount(name) == Cardinality({i \in 1..Len(stepLog) : stepLog[i].name = name})

StepOk(name) ==
  \E i \in 1..Len(stepLog) : stepLog[i].name = name /\ stepLog[i].ok

StepThrew(name) ==
  \E i \in 1..Len(stepLog) : stepLog[i].name = name /\ ~stepLog[i].ok

StageSteps == {"fetch-and-save-page", "vectorize-page-title",
               "process-properties", "process-blocks"}

\* no step before the catch clause threw
NoStepThrew == \A n \in StageSteps \cup {"complete-sync-job"} : ~StepThrew(n)

ExpectedSteps(p) ==
  <<"fetch-and-save-page", "vectorize-page-title">>
  \o (IF p.includeProperties THEN <<"process-properties">> ELSE <<>>)
  \o (IF p.includeBlocks THEN <<"process-blocks">> ELSE <<>>)
  \o <<"complete-sync-job">>

\* C7: the steps are invoked in the order fetch, title, properties (if
\* enabled), blocks (if enabled), complete; a step is invoked only after all
\* earlier ones returned; after a step throws only record-error is invoked.
C7_StepOrder ==
  LET names == [i \in 1..Len(stepLog) |-> stepLog[i].name]
      exp   == ExpectedSteps(params)
  IN /\ \E k \in 0..Len(exp) :
          /\ \A i \in 1..(k - 1) : stepLog[i].ok
          /\ \/ names = SubSeq(exp, 1, k)
             \/ /\ k >= 1
                /\ names = SubSeq(exp, 1, k) \o <<"record-error">>
                /\ ~stepLog[k].ok
     /\ (spc = "returned" /\ result[1].success) => names = exp

C7_Witness ==
  /\ spc = "returned"
  /\ result[1].success
  /\ params.includeProperties
  /\ ~params.includeBlocks
  /\ Len(stepLog) = 4

\* the createVectorAsync calls made for one content type
EmbedsOf(contentType) ==
  Cardinality({i \in 1..Len(embedCalls) :
                 embedCalls[i].contentType = contentType})

\* what a stage contributed to vectorsCreated if it completed
Contribution(step, contentType) ==
  IF StepOk(step) THEN EmbedsOf(contentType) ELSE 0

\* C8: when a stage step throws, the returned result has success = false and
\* its counters hold what the stages that completed contributed; the failing
\* stage and the later ones contribute nothing.
C8_CountersOfCompletedStages ==
  (spc = "returned" /\ \E n \in StageSteps : StepThrew(n)) =>
    LET r == result[1]
    IN /\ ~r.success
       /\ r.vectorsCreated =
            Contribution("vectorize-page-title", "page_title")
            + Contribution("process-properties", "property")
            + Contribution("process-blocks", "block")
       /\ r.propertiesProcessed =
            (IF StepOk("process-properties") THEN Len(page) ELSE 0)
       /\ r.blocksProcessed = 0

C8_Witness ==
  /\ spc = "returned"
  /\ StepThrew("process-blocks")
  /\ result[1].vectorsCreated = 3
  /\ result[1].propertiesProcessed = 2
  /\ Len(embedCalls) > 3

\* C9: when process-blocks throws an Error with message m, the run returns
\* success = false, error = m and blocksProcessed = 0, record-error ran
\* exactly once and complete-sync-job never ran.
C9_BlocksFailureResult ==
  (Ended /\ StepThrew("process-blocks") /\ caught[1].isError) =>
    /\ spc = "returned"
    /\ result # <<>>
    /\ ~result[1].success
    /\ result[1].error = caught[1].message
    /\ result[1].blocksProcessed = 0
    /\ StepCount("record-error") = 1
    /\ StepCount("complete-sync-job") = 0

\* C10: at the end of every run each vector id an embedding call returned
\* has exactly one saved relation, with that id, the page id and the
\* namespace of the call.
C10_EveryVectorHasOneRelation ==
  Ended =>
    \A i \in 1..Len(embedCalls) :
      LET rows == {j \in 1..Len(relations) :
                     relations[j].vectorId = embedCalls[i].vectorId}
      IN /\ Cardinality(rows) = 1
         /\ \A j \in rows : /\ relations[j].pageId = PageId
                            /\ relations[j].namespace = embedCalls[i].namespace

-----------------------------------------------------------------------------
(* Properties of the job manager *)

AllowedEdges ==
  {<<"QUEUED", "PROCESSING">>, <<"PROCESSING", "COMPLETED">>,
   <<"PROCESSING", "RETRYING">>, <<"PROCESSING", "FAILED">>,
   <<"RETRYING", "PROCESSING">>, <<"QUEUED", "CANCELLED">>,
   <<"PROCESSING", "CANCELLED">>}

\* C3: a job's status changes only along the edges of the state machine, and
\* a COMPLETED, FAILED or CANCELLED job never changes status again.
C3_StatusEdges ==
  [][\A j \in DOMAIN jobs \cap DOMAIN jobs' :
       jobs'[j].status # jobs[j].status =>
         /\ <<jobs[j].status, jobs'[j].status>> \in AllowedEdges
         /\ jobs[j].status \notin TerminalStatuses]_vars

C3_Witness ==
  /\ \E j \in DOMAIN jobs : jobs[j].status = "CANCELLED"
  /\ \E j \in DOMAIN jobs : jobs[j].status = "FAILED" /\ jobs[j].attempts = MaxAttempts

\* C4: the number of PROCESSING jobs never exceeds the concurrency limit;
\* jobs beyond the limit wait as QUEUED.
C4_ConcurrencyCap == ProcessingCount(jobs) <= MaxConcurrentJobs

C4_Witness ==
  /\ ProcessingCount(jobs) = MaxConcurrentJobs
  /\ \E j \in DOMAIN jobs : jobs[j].status = "QUEUED"

\* the handler of a CANCELLED job is not invoked: the job no longer changes
CancelledStaysPut ==
  \A j \in DOMAIN jobs \cap DOMAIN jobs' :
    jobs[j].status = "CANCELLED" => jobs'[j] = jobs[j]

C12_RetryBounded ==
  [][\A j \in DOMAIN jobs \cap DOMAIN jobs' :
       /\ jobs'[j].attempts <= MaxAttempts
       /\ HandlerFailedRetryableOf(j) =>
            /\ jobs'[j].error = TimeoutMessage
            /\ jobs[j].attempts < MaxAttempts => jobs'[j].status = "RETRYING"
            /\ jobs[j].attempts = MaxAttempts => jobs'[j].status = "FAILED"
       /\ (jobs[j].status = "RETRYING" /\ jobs'[j].status # "RETRYING") =>
            jobs'[j].status = "PROCESSING"
       /\ jobs'[j].status = "RETRYING" => jobs'[j].attempts < MaxAttempts]_vars

\* a job that was retried up to the maximum and then failed
C12_Witness ==
  \E j \in DOMAIN jobs :
    /\ jobs[j].status = "FAILED"
    /\ jobs[j].attempts = MaxAttempts
    /\ jobs[j].error = TimeoutMessage

-----------------------------------------------------------------------------
(* Properties of the circuit breaker *)

\* C13: with threshold T the circuit is CLOSED while fewer than T
\* consecutive failures of the wrapped function have occurred (a success
\* resets the count) and OPEN from the T-th consecutive failure on; while it
\* is OPEN and the open duration has not elapsed, an execute call is rejected
\* with the circuit-open error and the wrapped function is not invoked.
C13_OpensAtThreshold ==
  [][/\ consecutive' < threshold' => cbState' = "CLOSED"
     /\ consecutive' >= threshold' => cbState' = "OPEN"
     /\ (cbState = "OPEN" /\ now - lastFailureTime < openDuration) =>
          /\ fnCalls' = fnCalls
          /\ cbState' = "OPEN"
          /\ lastExecute' # lastExecute => lastExecute' = CircuitOpenMessage]_vars

\* threshold 2: two failures opened the circuit and the third call was
\* rejected without reaching the wrapped function
C13_Witness ==
  /\ threshold = 2
  /\ cbState = "OPEN"
  /\ fnCalls = 2
  /\ lastExecute = CircuitOpenMessage

-----------------------------------------------------------------------------
(* Properties of retryWithBackoff and retryBulkOperation *)

\* C14: when retryWithBackoff has ended, fn was invoked exactly once if its
\* first call succeeded or failed with a non-retryable error, and exactly
\* maxAttempts times if every call failed with a retryable error; when the
\* last call failed, retryWithBackoff rejects with the error of that call.
C14_InvocationCounts ==
  rpc = "settled" =>
    LET log == rLog[rIdx]
        n   == Len(log)
    IN /\ log[1].kind \in {"ok", "fatal"} => n = 1
       /\ (\A i \in 1..n : log[i].kind = "retryable") => n = rMax
       /\ log[1].kind = "ok" => rSettled[1].resolved
       /\ log[n].kind # "ok" =>
            /\ ~rSettled[1].resolved
            /\ rSettled[1].error = log[n]

\* every call failed with a retryable error, more than one attempt allowed
C14_Witness ==
  /\ rpc = "settled"
  /\ rMax = MaxRetryAttempts
  /\ Len(rLog[rIdx]) = rMax
  /\ \A i \in 1..rMax : rLog[rIdx][i].kind = "retryable"
  /\ ~rSettled[1].resolved

\* the operation on the i-th item ended in success
SucceededAt(i) == rLog[i][Len(rLog[i])].kind = "ok"

\* how many entries of a result list carry the item v
CountOf(list, v) == Cardinality({k \in 1..Len(list) : list[k].item = v})

\* C20: when retryBulkOperation returns, every input item has been
\* processed within the attempt budget and appears exactly once in the
\* result: in successful with its result when its operation succeeded, in
\* failed with its last error otherwise; a failed item does not stop the
\* items after it from being processed.
C20_BulkPartition ==
  rpc = "done" =>
    LET n == Len(rItems)
    IN /\ Len(rLog) = n
       /\ \A i \in 1..n : Len(rLog[i]) \in 1..rMax
       /\ Len(successful) + Len(failed) = n
       /\ \A v \in BulkItems :
            /\ CountOf(successful, v) =
                 Cardinality({i \in 1..n : rItems[i] = v /\ SucceededAt(i)})
            /\ CountOf(failed, v) =
                 Cardinality({i \in 1..n : rItems[i] = v /\ ~SucceededAt(i)})
       /\ \A k \in 1..Len(successful) :
            successful[k].result = OperationResult(successful[k].item)
       /\ \A k \in 1..Len(failed) :
            \E i \in 1..n : /\ rItems[i] = failed[k].item
                            /\ failed[k].error = rLog[i][Len(rLog[i])]
                            /\ failed[k].error.kind # "ok"

\* the first item used up its attempts, the second one was still processed
\* and succeeded after a retry
C20_Witness ==
  /\ rpc = "done"
  /\ Len(rItems) = 2
  /\ Len(rLog) = 2
  /\ Len(rLog[1]) = rMax /\ rMax > 1 /\ ~SucceededAt(1)
  /\ Len(rLog[2]) = 2 /\ SucceededAt(2)
  /\ Len(successful) = 1 /\ Len(failed) = 1

-----------------------------------------------------------------------------
(* Further properties of the chunk processor *)

\* C15: when the overlap lies in [0, floor(chunkSize / 2)], every emitted
\* chunk spans at most chunkSize + 50 characters.
C15_ChunkSpanBounded ==
  (Validated /\ 0 <= chunkOverlap /\ chunkOverlap <= chunkSize \div 2) =>
    \A k \in 1..Len(chunks) :
      chunks[k].endOffset - chunks[k].startOffset <= chunkSize + PunctLookBack

\* a chunk whose end was moved past the raw cut by findWordBoundary
C15_Witness ==
  /\ Validated /\ 0 <= chunkOverlap /\ chunkOverlap <= chunkSize \div 2
  /\ \E k \in 1..Len(chunks) :
       chunks[k].endOffset - chunks[k].startOffset = chunkSize + 1

\* C16: consecutive chunks leave no gap: the next chunk starts at or before
\* the end of the previous one, also when a whitespace-only window was
\* skipped between them.
C16_NoGapBetweenChunks ==
  \A k \in 1..(Len(chunks) - 1) :
    chunks[k].endOffset - chunks[k + 1].startOffset >= 0

\* C16 (amended): between two consecutive chunks lies nothing of the
\* normalized text but white space: the next chunk starts at or before the
\* end of the previous one, or what lies between them is white space only.
C16_OnlyWhiteSpaceBetweenChunks ==
  \A k \in 1..(Len(chunks) - 1) :
    \/ chunks[k].endOffset - chunks[k + 1].startOffset >= 0
    \/ Trim(Substring(cleanTxt, chunks[k].endOffset,
                      chunks[k + 1].startOffset)) = <<>>

\* two consecutive chunks with a skipped whitespace-only window between them
C16_Witness ==
  \E k \in 1..(Len(chunks) - 1) :
    chunks[k + 1].startOffset > chunks[k].endOffset

\* C17: for a text that is empty or white space only, execute returns at
\* once with no chunks, totalChunks = 0 and averageChunkSize = 0, whatever
\* chunkSize and chunkOverlap were requested.
C17_EmptyTextNoChunks ==
  (cpc \notin {"execute", "idle"}
   /\ \A i \in 1..Len(text) : text[i] \in WhiteSpace) =>
    /\ cpc = "returned"
    /\ ChunkResult.chunks = <<>>
    /\ ChunkResult.totalChunks = 0
    /\ ChunkResult.averageChunkSize = 0

\* a text of white space only has been processed
C17_Witness ==
  /\ cpc = "returned"
  /\ Len(text) > 0
  /\ \A i \in 1..Len(text) : text[i] \in WhiteSpace
  /\ reqSize # NoValue /\ reqOverlap # NoValue
  /\ ChunkResult.totalChunks = 0

\* C18: the effective chunk size lies in [100, 5000]: a requested value
\* below 100 becomes 100, one above 5000 becomes 5000, one inside the range
\* is kept and an absent one becomes 1000.
C18_ChunkSizeClamped ==
  Validated =>
    /\ MIN_CHUNK_SIZE <= chunkSize /\ chunkSize <= MAX_CHUNK_SIZE
    /\ reqSize = NoValue => chunkSize = DEFAULT_CHUNK_SIZE
    /\ reqSize # NoValue =>
         /\ reqSize[1] < MIN_CHUNK_SIZE => chunkSize = MIN_CHUNK_SIZE
         /\ reqSize[1] > MAX_CHUNK_SIZE => chunkSize = MAX_CHUNK_SIZE
         /\ (MIN_CHUNK_SIZE <= reqSize[1] /\ reqSize[1] <= MAX_CHUNK_SIZE) =>
              chunkSize = reqSize[1]

-----------------------------------------------------------------------------
(* Further properties of the sync workflow *)

\* the page has no title property, or only empty ones
NoTitleText ==
  \A i \in 1..Len(page) : page[i].type = "title" => Join(page[i].value, "") = ""

\* C19: a run with includeBlocks = false and includeProperties = false on a
\* page without title text, whose fetch and completion steps succeed,
\* returns success = true with all three counters 0, makes no embedding
\* call and saves no relation.
C19_NoTitleNoStages ==
  (/\ Ended
   /\ ~params.includeBlocks /\ ~params.includeProperties
   /\ StepOk("fetch-and-save-page") /\ NoTitleText
   /\ StepOk("complete-sync-job")) =>
    /\ spc = "returned"
    /\ result # <<>>
    /\ result[1].success
    /\ result[1].vectorsCreated = 0
    /\ result[1].propertiesProcessed = 0
    /\ result[1].blocksProcessed = 0
    /\ embedCalls = <<>>
    /\ relations = <<>>
    /\ ~StepThrew("vectorize-page-title")

\* such a run on a page whose title property is empty
C19_Witness ==
  /\ spc = "returned"
  /\ ~params.includeBlocks /\ ~params.includeProperties
  /\ NoTitleText
  /\ \E i \in 1..Len(page) : page[i].type = "title"
  /\ StepOk("complete-sync-job")
  /\ result # <<>>

\* the rows of the sync-job table written by this run
FailedRows == {i \in 1..Len(syncJobs) : syncJobs[i].status = "failed"}

\* C21 as claimed: the sync-job row a run persisted, completed or failed,
\* carries the run's final blocksProcessed, propertiesProcessed and
\* vectorsCreated, and a failed row also carries the message of the error
\* that was thrown.
C21_RecordCarriesCounters ==
  spc = "returned" =>
    \A i \in 1..Len(syncJobs) :
      /\ syncJobs[i].hasMetadata
      /\ syncJobs[i].blocksProcessed = result[1].blocksProcessed
      /\ syncJobs[i].propertiesProcessed = result[1].propertiesProcessed
      /\ syncJobs[i].vectorsCreated = result[1].vectorsCreated
      /\ (i \in FailedRows /\ caught[1].isError) =>
           syncJobs[i].error = caught[1].message

\* C28 as claimed: when a run fails, the error stored in the failed sync-job
\* row equals the error field of the returned result, whatever was thrown.
C28_RecordErrorEqualsResultError ==
  (spc = "returned" /\ ~result[1].success) =>
    \A i \in FailedRows : syncJobs[i].error = result[1].error

\* the relations saved for one content type
RelationsOf(contentType) ==
  Cardinality({i \in 1..Len(relations) :
                 relations[i].contentType = contentType})

\* the relations a stage saved if it completed
SavedBy(step, contentType) ==
  IF StepOk(step) THEN RelationsOf(contentType) ELSE 0

\* C27 as claimed: in every run that returned a result, vectorsCreated equals
\* the number of relations saved during the run.
C27_VectorsCreatedCountsRelations ==
  spc = "returned" => result[1].vectorsCreated = Len(relations)

\* C27, amended: a run that returned success has vectorsCreated equal to the
\* number of relations saved; a run that returned failure has vectorsCreated
\* equal to the number of relations saved by the stages that completed, so
\* the relations the failing stage saved before it threw are not counted.
C27_VectorsCreatedCountsCompletedStages ==
  spc = "returned" =>
    /\ result[1].success => result[1].vectorsCreated = Len(relations)
    /\ result[1].vectorsCreated =
         SavedBy("vectorize-page-title", "page_title")
         + SavedBy("process-properties", "property")
         + SavedBy("process-blocks", "block")
    /\ result[1].vectorsCreated <= Len(relations)

\* a failed run whose failing stage had saved a relation before it threw
C27_Witness ==
  /\ spc = "returned"
  /\ ~result[1].success
  /\ result[1].vectorsCreated > 0
  /\ Len(relations) > result[1].vectorsCreated

\* the properties of the page that carry text: title, rich_text, select or
\* multi_select with a non-empty extracted text
TextBearing ==
  {i \in 1..Len(page) :
     /\ page[i].type \in {"title", "rich_text", "select", "multi_select"}
     /\ PropertyText(page[i]) # ""}

LongBlocks ==
  {i \in 1..Len(fetchedBlocks) :
     Len(extractPlainTextFromBlock(fetchedBlocks[i])) > MinBlockTextLength}

\* the relations saved for the i-th fetched block
BlockRelations(i) ==
  {j \in 1..Len(relations) :
     /\ relations[j].contentType = "block"
     /\ relations[j].blockId = "block" \o ToString(i)}

-----------------------------------------------------------------------------
(* Further properties of the chunker *)

\* C24 as claimed: the text of every emitted chunk is at most chunkSize
\* characters long, whatever boundary findWordBoundary chose.
C24_ChunkTextWithinSize ==
  Validated => \A i \in 1..Len(chunks) : Len(chunks[i].text) <= chunkSize

\* C26 as claimed: every emitted chunk has
\* 0 <= startOffset < endOffset <= Len(cleanTxt), and its text is the
\* normalized text from startOffset to endOffset.
C26_ChunkOffsetsWithinText ==
  Validated =>
    \A i \in 1..Len(chunks) :
      /\ 0 <= chunks[i].startOffset
      /\ chunks[i].startOffset < chunks[i].endOffset
      /\ chunks[i].endOffset <= Len(cleanTxt)
      /\ Len(chunks[i].text) = chunks[i].endOffset - chunks[i].startOffset
      /\ chunks[i].text =
           SubSeq(cleanTxt, chunks[i].startOffset + 1, chunks[i].endOffset)

\* C29 as claimed: a requested chunkOverlap within [0, chunkSize \div 2] is
\* the overlap the splitter uses, and with a requested overlap of 0 every
\* iteration starts where the previous window ended.
C29_InRangeOverlapUnchanged ==
  (/\ Validated
   /\ reqOverlap # NoValue
   /\ 0 <= reqOverlap[1]
   /\ reqOverlap[1] <= chunkSize \div 2) =>
    /\ chunkOverlap = reqOverlap[1]
    /\ reqOverlap[1] = 0 =>
         \A i \in 2..Len(chunks) :
           chunks[i].startOffset >= chunks[i - 1].endOffset

-----------------------------------------------------------------------------
(* Properties of the HTTP API *)

\* C25 as claimed: when the VECTORIZE_INDEX call of a vector route rejects,
\* the response is 500 with success = false and error equal to the message
\* of an Error and to String(value) of every value that is not an Error.
C25_IndexRejectionResponse ==
  (apc = "responded" /\ rejection # NoValue) =>
    /\ response[1].status = 500
    /\ ~response[1].success
    /\ response[1].error =
         Some(IF rejection[1].kind = "Error" THEN rejection[1].message[1]
              ELSE StringOf(rejection[1]))

\* C30 as claimed: outside development, whatever API_KEY is, a request to a
\* path under /api/ with neither an X-API-Key nor an Authorization header
\* is answered with 401, and no route handler, VECTORIZE_INDEX call or AI
\* call runs.
C30_NoKeyNoAccess ==
  (/\ apc = "responded"
   /\ env.ENVIRONMENT # Some("development")
   /\ UnderApi(req.route)
   /\ req.xApiKey = NoValue /\ req.authorization = NoValue) =>
    /\ response[1].status = 401
    /\ handlersRun = <<>>
    /\ indexCalls = <<>>
    /\ aiCalls = 0

====
